---- MODULE Spec2Model ----
(***************************************************************************)
(* keyward.table_operations.TableOperations: the Table Service, a facade   *)
(* over the Remote Table Gateway (grist.browser.api).  One Service call    *)
(* runs at a time; every awaited Gateway request is one step, and the      *)
(* Gateway answers each request by succeeding or by raising.               *)
(***************************************************************************)
EXTENDS Integers, Sequences, FiniteSets, TLC

VARIABLES
  tables,   \* the Gateway's storage: table name -> [cols, rows, next]
  pre,      \* the storage as it was when the running Service call began
  pc,       \* the code position of the running Service call
  stack,    \* return positions of the Service functions that called the running one
  rv,       \* the value returned by the Service function that returned last
  req,      \* the running Service call: operation name and arguments
  log,      \* the Gateway requests the running Service call has issued, in order
  ct,       \* locals of create_table
  ad,       \* locals of add_data
  dd,       \* locals of delete_data
  m,        \* locals of merge_tables / merge_tables_strict
  bm,       \* locals of bulk_merge_tables
  cfd,      \* locals of create_table_from_dataframe
  bdw       \* locals of bulk_delete_where

vars == <<tables, pre, pc, stack, rv, req, log, ct, ad, dd, m, bm, cfd, bdw>>

----------------------------------------------------------------------------
(* Bounds of the model *)

\* longest source list handed to a merge
MaxSources == 2
\* longest configuration list handed to bulk_merge_tables
MaxConfigs == 3

----------------------------------------------------------------------------
(* Values *)

TableNames == {"A", "B", "T"}
UserCols   == {"x", "y", "z"}
SysCols    == {"id", "manualSort"}
NoneVal    == "None"
IntVals    == {"0", "1", "2"}
StrVals    == {"", "a"}
BoolVals   == {"True"}
Vals       == IntVals \cup StrVals \cup BoolVals \cup {NoneVal}

\* type(v).__name__
TypeName(v) ==
  IF v = NoneVal THEN "NoneType"
  ELSE IF v \in IntVals THEN "int"
  ELSE IF v \in BoolVals THEN "bool"
  ELSE "str"

Range(s) == {s[i] : i \in DOMAIN s}

\* the dict without keys
EmptyDict == [c \in {} |-> NoneVal]

\* the sequences over S of length at most n
SeqUpTo(S, n) == UNION {[1..k -> S] : k \in 0..n}

\* a sequence restricted to the elements satisfying Test, order kept
RECURSIVE SelectIdx(_, _, _)
SelectIdx(s, i, keep) ==
  IF i > Len(s) THEN <<>>
  ELSE (IF i \in keep THEN <<s[i]>> ELSE <<>>) \o SelectIdx(s, i + 1, keep)

----------------------------------------------------------------------------
(* The Remote Table Gateway *)

Row(id, rec) == [id |-> id, rec |-> rec]

\* fetch_table: the column-oriented snapshot, with id and manualSort,
\* every column as long as the table has rows
Snapshot(tb) ==
  [c \in SysCols \cup tb.cols |->
     [i \in 1..Len(tb.rows) |->
        IF c \in SysCols THEN tb.rows[i].id
        ELSE IF c \in DOMAIN tb.rows[i].rec THEN tb.rows[i].rec[c]
        ELSE NoneVal]]

\* create: one row per record, identifiers assigned in input order.  A create
\* that raises, or that answers with no identifier ("noid"), inserts nothing.
GwInsert(tb, recs) ==
  [cols |-> tb.cols \cup UNION {DOMAIN recs[i] : i \in DOMAIN recs},
   rows |-> tb.rows \o [i \in 1..Len(recs) |-> Row(tb.next + i - 1, recs[i])],
   next |-> tb.next + Len(recs)]

GwNewIds(tb, recs) == [i \in 1..Len(recs) |-> tb.next + i - 1]

\* destroy: the rows with the given identifiers are removed
GwRemove(tb, ids) ==
  [tb EXCEPT !.rows =
     SelectIdx(tb.rows, 1, {i \in DOMAIN tb.rows : tb.rows[i].id \notin Range(ids)})]

\* update: each record's fields overwrite those of the row it names
GwPatch(tb, ups) ==
  [tb EXCEPT
     !.cols = @ \cup UNION {DOMAIN ups[j].rec : j \in DOMAIN ups},
     !.rows = [i \in DOMAIN tb.rows |->
        IF \E j \in DOMAIN ups : ups[j].id = tb.rows[i].id
        THEN LET j == CHOOSE j \in DOMAIN ups :
                        /\ ups[j].id = tb.rows[i].id
                        /\ \A l \in DOMAIN ups : ups[l].id = tb.rows[i].id => l <= j
                 u == ups[j].rec
             IN  Row(tb.rows[i].id,
                     [c \in DOMAIN tb.rows[i].rec \cup DOMAIN u |->
                        IF c \in DOMAIN u THEN u[c] ELSE tb.rows[i].rec[c]])
        ELSE tb.rows[i]]]

\* one Gateway request as the running call issued it
Call(name, site, t, ok, recs, ids, ret) ==
  [call |-> name, site |-> site, table |-> t, ok |-> ok,
   recs |-> recs, ids |-> ids, ret |-> ret, snap |-> EmptyDict,
   cfg |-> bm.i, k |-> m.i]

\* a fetch_table request and the snapshot it was answered with
Fetched(site, t, ok, snap) ==
  [Call("fetch_table", site, t, ok, <<>>, <<>>, <<>>) EXCEPT
     !.snap = IF ok THEN snap ELSE EmptyDict]

----------------------------------------------------------------------------
(* Return values and control *)

RBool(b)  == [kind |-> "bool",  val |-> b]
RNone     == [kind |-> "none",  val |-> FALSE]
RIds(s)   == [kind |-> "ids",   val |-> s]
RFrame(f) == [kind |-> "frame", val |-> f]
RName(t)  == [kind |-> "name",  val |-> t]
RList(l)  == [kind |-> "list",  val |-> l]

NoCt  == [table |-> "", columns |-> EmptyDict, dummy_record |-> EmptyDict, result |-> <<>>]
NoAd  == [table |-> "", records |-> <<>>]
NoDd  == [table |-> "", row_ids |-> <<>>]
NoM   == [strict |-> FALSE, sources |-> <<>>, target |-> NoneVal, create_new |-> FALSE,
          tgt |-> "", srcs |-> <<>>, j |-> 0, i |-> 0,
          common_none |-> TRUE, common_cols |-> {}]
NoBm  == [tables |-> <<>>, i |-> 0, success |-> <<>>]
NoBdw == [table_data |-> EmptyDict]
NoCfd == [table |-> "", df |-> [data |-> EmptyDict, dtypes |-> EmptyDict]]

\* a Service function returns v to the position that called it, or to the caller
Return(v) ==
  /\ rv' = v
  /\ IF stack = <<>>
     THEN pc' = "done" /\ stack' = stack
     ELSE pc' = Head(stack) /\ stack' = Tail(stack)

\* a Service operation is called from outside
Begin(op, args, entry) ==
  /\ pc = "idle"
  /\ req' = [op |-> op, args |-> args]
  /\ pre' = tables
  /\ pc' = entry
  /\ UNCHANGED <<tables, stack, rv, log>>

----------------------------------------------------------------------------
(* create_table *)

DummyRecord(columns) ==
  [c \in DOMAIN columns |-> IF columns[c] = "Text" THEN "" ELSE "0"]

EnterCreateTable(t, columns) ==
  ct' = [table |-> t, columns |-> columns,
         dummy_record |-> DummyRecord(columns), result |-> <<>>]

ColumnDicts ==
  { EmptyDict, [c \in {"x"} |-> "Text"], [c \in {"x", "y"} |-> IF c = "x" THEN "Numeric" ELSE "Text"] }

Call_create_table ==
  \E t \in TableNames, columns \in ColumnDicts :
    /\ Begin("create_table", [table |-> t, columns |-> columns], "ct_create")
    /\ EnterCreateTable(t, columns)
    /\ UNCHANGED <<ad, dd, m, bm, cfd, bdw>>

\* the throwaway row never cleaned up
HasResult_Never(result) == FALSE

\* line 28: if result and len(result) > 0
HasResult(result) == Len(result) > 0

\* line 25: result = await table_ops.create([dummy_record]); lines 28, 32-35
CreateTable_Create ==
  /\ pc = "ct_create"
  /\ LET t == ct.table
         recs == <<ct.dummy_record>>
     IN \E out \in {"ok", "noid", "raise"} :
          \/ /\ out \in {"ok", "noid"}
             /\ LET result == IF out = "ok" THEN GwNewIds(tables[t], recs) ELSE <<>>
                IN /\ tables' = IF out = "ok" THEN [tables EXCEPT ![t] = GwInsert(@, recs)]
                                ELSE tables
                   /\ log' = Append(log, Call("create", "ct_create", t, TRUE, recs, <<>>, result))
                   /\ ct' = [ct EXCEPT !.result = result]
                   /\ IF HasResult(result)
                      THEN /\ pc' = "ct_destroy"
                           /\ UNCHANGED <<stack, rv>>
                      ELSE Return(RBool(TRUE))
          \/ /\ out = "raise"
             /\ log' = Append(log, Call("create", "ct_create", t, FALSE, recs, <<>>, <<>>))
             /\ Return(RBool(FALSE))
             /\ UNCHANGED <<tables, ct>>
  /\ UNCHANGED <<pre, req, ad, dd, m, bm, cfd, bdw>>

\* the first row of the table destroyed instead of the row just created
ThrowawayIds_FirstRow(result) == <<1>>

\* line 29: [result[0]], the identifier returned for the throwaway record
ThrowawayIds(result) == <<result[1]>>

\* line 29: await table_ops.destroy([result[0]]); lines 32-35
CreateTable_Destroy ==
  /\ pc = "ct_destroy"
  /\ LET t == ct.table
         ids == ThrowawayIds(ct.result)
     IN \E ok \in BOOLEAN :
          /\ tables' = IF ok THEN [tables EXCEPT ![t] = GwRemove(@, ids)] ELSE tables
          /\ log' = Append(log, Call("destroy", "ct_destroy", t, ok, <<>>, ids, <<>>))
          /\ Return(RBool(ok))
  /\ UNCHANGED <<pre, req, ct, ad, dd, m, bm, cfd, bdw>>

----------------------------------------------------------------------------
(* add_data *)

\* lines 49-50: a single record becomes a one-element list
AsList(records) == IF records.islist THEN records.val ELSE <<records.val>>

EnterAddData(t, records) ==
  ad' = [table |-> t, records |-> AsList(records)]

RecA == [c \in {"x"} |-> "1"]
RecB == [c \in {"x", "y"} |-> IF c = "x" THEN "2" ELSE "a"]

RecordInputs ==
  << [islist |-> FALSE, val |-> RecA],
     [islist |-> TRUE,  val |-> <<RecA>>],
     [islist |-> TRUE,  val |-> <<RecB, RecA>>],
     [islist |-> TRUE,  val |-> <<>>] >>

Call_add_data ==
  \E t \in TableNames, n \in DOMAIN RecordInputs :
    /\ Begin("add_data", [table |-> t, records |-> RecordInputs[n]], "ad_create")
    /\ EnterAddData(t, RecordInputs[n])
    /\ UNCHANGED <<ct, dd, m, bm, cfd, bdw>>

\* line 56: result = await table_ops.create(records); lines 58-61
AddData_Create ==
  /\ pc = "ad_create"
  /\ LET t == ad.table
         recs == ad.records
     IN \E out \in {"ok", "noid", "raise"} :
          \/ /\ out = "ok"
             /\ tables' = [tables EXCEPT ![t] = GwInsert(@, recs)]
             /\ log' = Append(log, Call("create", "ad_create", t, TRUE, recs, <<>>,
                                        GwNewIds(tables[t], recs)))
             /\ Return(RIds(GwNewIds(tables[t], recs)))
          \/ /\ out = "noid"
             /\ recs # <<>>
             /\ log' = Append(log, Call("create", "ad_create", t, TRUE, recs, <<>>, <<>>))
             /\ Return(RIds(<<>>))
             /\ UNCHANGED tables
          \/ /\ out = "raise"
             /\ log' = Append(log, Call("create", "ad_create", t, FALSE, recs, <<>>, <<>>))
             /\ Return(RNone)
             /\ UNCHANGED tables
  /\ UNCHANGED <<pre, req, ct, ad, dd, m, bm, cfd, bdw>>

----------------------------------------------------------------------------
(* fetch_table_to_dataframe, update_table, delete_data, bulk_update_records *)

\* lines 78-79: the snapshot without the system columns
StripSystem(table_data) == [c \in DOMAIN table_data \ SysCols |-> table_data[c]]

EmptyFrame == EmptyDict

Call_fetch_table_to_dataframe ==
  \E t \in TableNames :
    /\ Begin("fetch_table_to_dataframe", [table |-> t], "fd_fetch")
    /\ UNCHANGED <<ct, ad, dd, m, bm, cfd, bdw>>

\* line 77: table_data = await gapi.grist.fetch_table(table_name); lines 78-83
FetchToDataframe_Fetch ==
  /\ pc = "fd_fetch"
  /\ LET t == req.args.table
     IN \E ok \in BOOLEAN :
          /\ log' = Append(log, Fetched("fd_fetch", t, ok, Snapshot(tables[t])))
          /\ Return(RFrame(IF ok THEN StripSystem(Snapshot(tables[t])) ELSE EmptyFrame))
  /\ UNCHANGED <<tables, pre, req, ct, ad, dd, m, bm, cfd, bdw>>

UpdateDicts == { [c \in {"x"} |-> "2"], [c \in {"y", "z"} |-> "a"] }

\* the row identifiers a caller may hold: those of a prior fetch or create
RowIds == 1..3

Call_update_table ==
  \E t \in TableNames, row_id \in RowIds, updates \in UpdateDicts :
    /\ Begin("update_table", [table |-> t, row_id |-> row_id, updates |-> updates],
             "ut_update")
    /\ UNCHANGED <<ct, ad, dd, m, bm, cfd, bdw>>

\* line 102: await table_ops.update([{"id": row_id, **updates}]); lines 103-106
UpdateTable_Update ==
  /\ pc = "ut_update"
  /\ LET t == req.args.table
         ups == <<[id |-> req.args.row_id, rec |-> req.args.updates]>>
     IN \E ok \in BOOLEAN :
          /\ tables' = IF ok THEN [tables EXCEPT ![t] = GwPatch(@, ups)] ELSE tables
          /\ log' = Append(log, Call("update", "ut_update", t, ok, ups, <<>>, <<>>))
          /\ Return(RBool(ok))
  /\ UNCHANGED <<pre, req, ct, ad, dd, m, bm, cfd, bdw>>

\* line 124: a single identifier becomes a one-element list
EnterDeleteData(t, row_ids) ==
  dd' = [table |-> t, row_ids |-> IF row_ids.islist THEN row_ids.val ELSE <<row_ids.val>>]

IdInputs ==
  << [islist |-> FALSE, val |-> 1], [islist |-> TRUE, val |-> <<2, 1>>],
     [islist |-> TRUE, val |-> <<>>] >>

Call_delete_data ==
  \E t \in TableNames, n \in DOMAIN IdInputs :
    /\ Begin("delete_data", [table |-> t, row_ids |-> IdInputs[n]], "dd_destroy")
    /\ EnterDeleteData(t, IdInputs[n])
    /\ UNCHANGED <<ct, ad, m, bm, cfd, bdw>>

\* line 124: await table_ops.destroy(...); lines 125-128
DeleteData_Destroy ==
  /\ pc = "dd_destroy"
  /\ LET t == dd.table
     IN \E ok \in BOOLEAN :
          /\ tables' = IF ok THEN [tables EXCEPT ![t] = GwRemove(@, dd.row_ids)] ELSE tables
          /\ log' = Append(log, Call("destroy", "dd_destroy", t, ok, <<>>, dd.row_ids, <<>>))
          /\ Return(RBool(ok))
  /\ UNCHANGED <<pre, req, ct, ad, dd, m, bm, cfd, bdw>>

UpdateBatches ==
  { <<>>,
    <<[id |-> 1, rec |-> [c \in {"x"} |-> "2"]]>>,
    <<[id |-> 1, rec |-> [c \in {"x"} |-> "2"]], [id |-> 2, rec |-> [c \in {"y"} |-> "a"]]>> }

Call_bulk_update_records ==
  \E t \in TableNames, updates \in UpdateBatches :
    /\ Begin("bulk_update_records", [table |-> t, updates |-> updates], "bu_update")
    /\ UNCHANGED <<ct, ad, dd, m, bm, cfd, bdw>>

\* a per-row report: the first update counted as applied although the call raised
BulkResults_FirstSucceeds(updates, ok) ==
  [i \in 1..Len(updates) |-> IF i = 1 THEN TRUE ELSE ok]

\* lines 205 and 208: [True] * len(updates) when the update returned,
\* [False] * len(updates) when it raised
BulkResults(updates, ok) == [i \in 1..Len(updates) |-> ok]

\* line 204: await table_ops.update(updates); lines 205-208
BulkUpdate_Update ==
  /\ pc = "bu_update"
  /\ LET t == req.args.table
         ups == req.args.updates
     IN \E ok \in BOOLEAN :
          /\ tables' = IF ok THEN [tables EXCEPT ![t] = GwPatch(@, ups)] ELSE tables
          /\ log' = Append(log, Call("update", "bu_update", t, ok, ups, <<>>, <<>>))
          /\ Return(RList(BulkResults(ups, ok)))
  /\ UNCHANGED <<pre, req, ct, ad, dd, m, bm, cfd, bdw>>

----------------------------------------------------------------------------
(* create_table_from_dataframe *)

\* lines 147-156 and the default of type_map.get(str(dt), 'Text')
DtypeMap(dt) ==
  IF dt \in {"int64", "int32", "float64", "float32"} THEN "Numeric"
  ELSE IF dt = "bool" THEN "Bool"
  ELSE IF dt = "datetime64[ns]" THEN "Date"
  ELSE "Text"

FrameLen(df) == IF DOMAIN df.data = {} THEN 0
                ELSE Len(df.data[CHOOSE c \in DOMAIN df.data : TRUE])

\* DataFrame.empty: no column or no row
FrameEmpty(df) == DOMAIN df.data = {} \/ FrameLen(df) = 0

\* line 164: df.replace({pd.NA: None}).to_dict('records')
FrameRecords(df) ==
  [i \in 1..FrameLen(df) |->
     [c \in DOMAIN df.data |-> IF df.data[c][i] = "NA" THEN NoneVal ELSE df.data[c][i]]]

Frames ==
  { [data |-> EmptyDict, dtypes |-> EmptyDict],
    [data |-> [c \in {"x"} |-> <<>>], dtypes |-> [c \in {"x"} |-> "int64"]],
    [data |-> [c \in {"x"} |-> <<"1", "2">>], dtypes |-> [c \in {"x"} |-> "int64"]],
    [data |-> [c \in {"x", "y"} |-> IF c = "x" THEN <<"a">> ELSE <<"NA">>],
     dtypes |-> [c \in {"x", "y"} |-> IF c = "x" THEN "object" ELSE "complex128"]] }

Call_create_table_from_dataframe ==
  \E t \in TableNames, df \in Frames :
    /\ Begin("create_table_from_dataframe", [table |-> t, df |-> df], "cfd_begin")
    /\ cfd' = [table |-> t, df |-> df]
    /\ UNCHANGED <<ct, ad, dd, m, bm, bdw>>

\* lines 142-143 and 159-160
CreateFromDataframe_Begin ==
  /\ pc = "cfd_begin"
  /\ IF FrameEmpty(cfd.df)
     THEN /\ Return(RNone)
          /\ UNCHANGED ct
     ELSE /\ EnterCreateTable(cfd.table, [c \in DOMAIN cfd.df.dtypes |-> DtypeMap(cfd.df.dtypes[c])])
          /\ pc' = "ct_create"
          /\ stack' = <<"cfd_after_ct">> \o stack
          /\ UNCHANGED rv
  /\ UNCHANGED <<tables, pre, req, log, ad, dd, m, bm, cfd, bdw>>

\* lines 160-165
CreateFromDataframe_AfterCreate ==
  /\ pc = "cfd_after_ct"
  /\ IF ~rv.val
     THEN /\ Return(RNone)
          /\ UNCHANGED ad
     ELSE /\ EnterAddData(cfd.table, [islist |-> TRUE, val |-> FrameRecords(cfd.df)])
          /\ pc' = "ad_create"
          /\ stack' = <<"cfd_after_ad">> \o stack
          /\ UNCHANGED rv
  /\ UNCHANGED <<tables, pre, req, log, ct, dd, m, bm, cfd, bdw>>

\* lines 165-168
CreateFromDataframe_AfterAdd ==
  /\ pc = "cfd_after_ad"
  /\ Return(IF rv.kind = "none" THEN RNone ELSE RName(cfd.table))
  /\ UNCHANGED <<tables, pre, req, log, ct, ad, dd, m, bm, cfd, bdw>>

----------------------------------------------------------------------------
(* bulk_delete_where *)

\* Python's == on the modelled values: True == 1
PyEq(a, b) ==
  \/ a = b
  \/ {a, b} = {"True", "1"}

\* a predicate column the snapshot lacks is skipped instead of failing the row
RECURSIVE RowMatches_SkipsAbsent(_, _, _, _)
RowMatches_SkipsAbsent(table_data, where, i, n) ==
  IF n > Len(where) THEN TRUE
  ELSE LET col == where[n].col
           val == where[n].val
       IN IF col \in DOMAIN table_data /\ i <= Len(table_data[col])
          THEN IF ~(table_data[col][i] = val \/ {table_data[col][i], val} = {"True", "1"})
               THEN FALSE
               ELSE RowMatches_SkipsAbsent(table_data, where, i, n + 1)
          ELSE RowMatches_SkipsAbsent(table_data, where, i, n + 1)

\* lines 246-253: the predicate's columns are tested in the dict's order and the
\* first failing one ends the test
RECURSIVE RowMatches(_, _, _, _)
RowMatches(table_data, where, i, n) ==
  IF n > Len(where) THEN TRUE
  ELSE LET col == where[n].col
           val == where[n].val
       IN IF col \in DOMAIN table_data /\ i <= Len(table_data[col])
          THEN IF ~PyEq(table_data[col][i], val) THEN FALSE
               ELSE RowMatches(table_data, where, i, n + 1)
          ELSE FALSE

\* line 244: table_data.get('id', [])
IdColumn(table_data) == IF "id" \in DOMAIN table_data THEN table_data["id"] ELSE <<>>

\* lines 243-256
RECURSIVE MatchingRowIds(_, _, _)
MatchingRowIds(table_data, where, i) ==
  IF i > Len(IdColumn(table_data)) THEN <<>>
  ELSE (IF RowMatches(table_data, where, i, 1) THEN <<IdColumn(table_data)[i]>> ELSE <<>>)
       \o MatchingRowIds(table_data, where, i + 1)

\* a predicate is a dict: its columns are distinct
WhereVals == {"1", "a", "True", NoneVal}
Predicates ==
  { w \in SeqUpTo([col : UserCols, val : WhereVals], 2) :
      \A a, b \in DOMAIN w : a # b => w[a].col # w[b].col }

Call_bulk_delete_where ==
  \E t \in TableNames, where \in Predicates :
    /\ Begin("bulk_delete_where", [table |-> t, where |-> where], "bdw_fetch")
    /\ UNCHANGED <<ct, ad, dd, m, bm, cfd, bdw>>

\* line 240 with the snapshot the Gateway answered, lines 243-264
BulkDeleteWhere_Answer(ok, table_data) ==
  LET t == req.args.table
      row_ids == MatchingRowIds(table_data, req.args.where, 1)
  IN /\ log' = Append(log, Fetched("bdw_fetch", t, ok, table_data))
     /\ bdw' = [table_data |-> IF ok THEN table_data ELSE EmptyDict]
     /\ IF ~ok
        THEN /\ Return(RBool(FALSE))
             /\ UNCHANGED dd
        ELSE IF row_ids # <<>>
        THEN /\ EnterDeleteData(t, [islist |-> TRUE, val |-> row_ids])
             /\ pc' = "dd_destroy"
             /\ stack' = <<"bdw_after_dd">> \o stack
             /\ UNCHANGED rv
        ELSE /\ Return(RBool(TRUE))
             /\ UNCHANGED dd
     /\ UNCHANGED <<tables, pre, req, ct, ad, m, bm, cfd>>

BulkDeleteWhere_Fetch ==
  /\ pc = "bdw_fetch"
  /\ \E ok \in BOOLEAN : BulkDeleteWhere_Answer(ok, Snapshot(tables[req.args.table]))

\* snapshots outside the Gateway's contract: any columns one value short, the
\* id column possibly absent
Wire(snap) ==
  { [c \in D |-> IF c \in short /\ Len(snap[c]) > 0
                 THEN SubSeq(snap[c], 1, Len(snap[c]) - 1) ELSE snap[c]] :
      D \in {DOMAIN snap, DOMAIN snap \ {"id"}}, short \in SUBSET (DOMAIN snap) }

\* line 240 answered with any such snapshot
BulkDeleteWhere_FetchAny ==
  /\ pc = "bdw_fetch"
  /\ \E ok \in BOOLEAN, table_data \in Wire(Snapshot(tables[req.args.table])) :
       BulkDeleteWhere_Answer(ok, table_data)

\* line 260: return await TableOperations.delete_data(table_name, row_ids)
BulkDeleteWhere_AfterDelete ==
  /\ pc = "bdw_after_dd"
  /\ Return(rv)
  /\ UNCHANGED <<tables, pre, req, log, ct, ad, dd, m, bm, cfd, bdw>>

----------------------------------------------------------------------------
(* merge_tables and merge_tables_strict: shared parts *)

\* lines 294-300, 381-387 and the default of type_map.get(..., 'Text')
TypeMap(name) ==
  IF name \in {"int", "float"} THEN "Numeric"
  ELSE IF name = "bool" THEN "Bool"
  ELSE "Text"

\* lines 306, 392: next((v for v in column if v is not None), None)
RECURSIVE FirstNonNone(_, _)
FirstNonNone(column, i) ==
  IF i > Len(column) THEN NoneVal
  ELSE IF column[i] # NoneVal THEN column[i]
  ELSE FirstNonNone(column, i + 1)

\* the first source kept in the copy loop when it is the target
EnterMerge_KeepsFirst(strict, sources, target, create_new) ==
  m' = [strict |-> strict, sources |-> sources, target |-> target,
        create_new |-> create_new,
        tgt  |-> IF target # NoneVal THEN target
                 ELSE IF sources # <<>> THEN sources[1] ELSE "",
        srcs |-> sources,
        j |-> 0, i |-> 0, common_none |-> TRUE, common_cols |-> {}]

\* lines 285-286, 356-357
EnterMerge(strict, sources, target, create_new) ==
  m' = [strict |-> strict, sources |-> sources, target |-> target,
        create_new |-> create_new,
        tgt  |-> IF target # NoneVal THEN target
                 ELSE IF sources # <<>> THEN sources[1] ELSE "",
        srcs |-> IF target # NoneVal THEN sources
                 ELSE IF sources # <<>> THEN Tail(sources) ELSE <<>>,
        j |-> 0, i |-> 0, common_none |-> TRUE, common_cols |-> {}]

MergeArgs ==
  [sources : SeqUpTo(TableNames, MaxSources),
   target : TableNames \cup {NoneVal},
   create_new : BOOLEAN]

----------------------------------------------------------------------------
(* merge_tables *)

Call_merge_tables ==
  \E a \in MergeArgs :
    /\ Begin("merge_tables", a, "mt_begin")
    /\ EnterMerge(FALSE, a.sources, a.target, a.create_new)
    /\ UNCHANGED <<ct, ad, dd, bm, cfd, bdw>>

\* lines 282-289
MergeTables_Begin ==
  /\ pc = "mt_begin"
  /\ IF Len(m.sources) < 1
     THEN Return(RBool(FALSE))
     ELSE /\ pc' = IF m.create_new /\ m.srcs # <<>> THEN "mt_fetch_first" ELSE "mt_loop"
          /\ UNCHANGED <<stack, rv>>
  /\ UNCHANGED <<tables, pre, req, log, ct, ad, dd, m, bm, cfd, bdw>>

\* lines 302-308: the schema asked for the new target
UnionCols(first_source_data) ==
  [col \in DOMAIN first_source_data \ SysCols |->
     TypeMap(TypeName(FirstNonNone(first_source_data[col], 1)))]

\* line 291: first_source_data = await gapi.grist.fetch_table(srcs[0]); lines 302-311
MergeTables_FetchFirst ==
  /\ pc = "mt_fetch_first"
  /\ LET src == m.srcs[1]
     IN \E ok \in BOOLEAN :
          /\ log' = Append(log, Fetched("mt_fetch_first", src, ok, Snapshot(tables[src])))
          /\ IF ok
             THEN /\ EnterCreateTable(m.tgt, UnionCols(Snapshot(tables[src])))
                  /\ pc' = "ct_create"
                  /\ stack' = <<"mt_loop">> \o stack
                  /\ UNCHANGED rv
             ELSE /\ Return(RBool(FALSE))
                  /\ UNCHANGED ct
  /\ UNCHANGED <<tables, pre, req, ad, dd, m, bm, cfd, bdw>>

\* line 314: for src in srcs; line 332
MergeTables_Loop ==
  /\ pc = "mt_loop"
  /\ IF m.i >= Len(m.srcs)
     THEN /\ Return(RBool(TRUE))
          /\ UNCHANGED m
     ELSE /\ m' = [m EXCEPT !.i = @ + 1]
          /\ pc' = "mt_fetch_src"
          /\ UNCHANGED <<stack, rv>>
  /\ UNCHANGED <<tables, pre, req, log, ct, ad, dd, bm, cfd, bdw>>

\* the row-ordering column copied along with the user columns
UnionRecords_KeepsManualSort(src_data) ==
  [i \in 1..Len(IdColumn(src_data)) |->
     [col \in {c \in DOMAIN src_data \ {"id"} : i <= Len(src_data[c])} |-> src_data[col][i]]]

\* lines 318-326: one record per identifier, with every non-system column that
\* has a value at that row
UnionRecords(src_data) ==
  [i \in 1..Len(IdColumn(src_data)) |->
     [col \in {c \in DOMAIN src_data \ SysCols : i <= Len(src_data[c])} |-> src_data[col][i]]]

\* line 315: src_data = await gapi.grist.fetch_table(src); lines 318-330
MergeTables_FetchSrc ==
  /\ pc = "mt_fetch_src"
  /\ LET src == m.srcs[m.i]
         records == UnionRecords(Snapshot(tables[src]))
     IN \E ok \in BOOLEAN :
          /\ log' = Append(log, Fetched("mt_fetch_src", src, ok, Snapshot(tables[src])))
          /\ IF ~ok
             THEN /\ Return(RBool(FALSE))
                  /\ UNCHANGED ad
             ELSE IF records # <<>>
             THEN /\ EnterAddData(m.tgt, [islist |-> TRUE, val |-> records])
                  /\ pc' = "ad_create"
                  /\ stack' = <<"mt_loop">> \o stack
                  /\ UNCHANGED rv
             ELSE /\ pc' = "mt_loop"
                  /\ UNCHANGED <<stack, rv, ad>>
  /\ UNCHANGED <<tables, pre, req, ct, dd, m, bm, cfd, bdw>>

----------------------------------------------------------------------------
(* merge_tables_strict *)

Call_merge_tables_strict ==
  \E a \in MergeArgs :
    /\ Begin("merge_tables_strict", a, "ms_begin")
    /\ EnterMerge(TRUE, a.sources, a.target, a.create_new)
    /\ UNCHANGED <<ct, ad, dd, bm, cfd, bdw>>

\* lines 353-360
MergeStrict_Begin ==
  /\ pc = "ms_begin"
  /\ IF Len(m.sources) < 1
     THEN /\ Return(RBool(FALSE))
          /\ UNCHANGED m
     ELSE /\ m' = [m EXCEPT !.j = 1]
          /\ pc' = "ms_fetch_common"
          /\ UNCHANGED <<stack, rv>>
  /\ UNCHANGED <<tables, pre, req, log, ct, ad, dd, bm, cfd, bdw>>

\* the columns of the sources joined instead of intersected
NextCommon_Union(loc, src_data) ==
  IF loc.common_none THEN DOMAIN src_data \ SysCols
  ELSE loc.common_cols \cup (DOMAIN src_data \ SysCols)

\* lines 364-369
NextCommon(loc, src_data) ==
  IF loc.common_none THEN DOMAIN src_data \ SysCols
  ELSE loc.common_cols \cap (DOMAIN src_data \ SysCols)

\* line 363: src_data = await gapi.grist.fetch_table(src); lines 364-376
MergeStrict_FetchCommon ==
  /\ pc = "ms_fetch_common"
  /\ LET src == m.sources[m.j]
         common == NextCommon(m, Snapshot(tables[src]))
     IN \E ok \in BOOLEAN :
          /\ log' = Append(log, Fetched("ms_fetch_common", src, ok, Snapshot(tables[src])))
          /\ IF ~ok
             THEN /\ Return(RBool(FALSE))
                  /\ UNCHANGED m
             ELSE IF m.j < Len(m.sources)
             THEN /\ m' = [m EXCEPT !.j = @ + 1, !.common_none = FALSE, !.common_cols = common]
                  /\ UNCHANGED <<pc, stack, rv>>
             ELSE /\ m' = [m EXCEPT !.common_none = FALSE, !.common_cols = common]
                  /\ IF common = {}
                     THEN Return(RBool(FALSE))
                     ELSE /\ pc' = IF m.create_new THEN "ms_fetch_first" ELSE "ms_loop"
                          /\ UNCHANGED <<stack, rv>>
  /\ UNCHANGED <<tables, pre, req, ct, ad, dd, bm, cfd, bdw>>

\* lines 389-394: the schema asked for the new target
StrictCols(common_cols, first_source_data) ==
  [col \in common_cols |-> TypeMap(TypeName(FirstNonNone(first_source_data[col], 1)))]

\* line 378: first_source_data = await gapi.grist.fetch_table(sources[0]); lines 389-397
MergeStrict_FetchFirst ==
  /\ pc = "ms_fetch_first"
  /\ LET src == m.sources[1]
         first_source_data == Snapshot(tables[src])
     IN \E ok \in BOOLEAN :
          /\ log' = Append(log, Fetched("ms_fetch_first", src, ok, first_source_data))
          /\ IF ok /\ m.common_cols \subseteq DOMAIN first_source_data
             THEN /\ EnterCreateTable(m.tgt, StrictCols(m.common_cols, first_source_data))
                  /\ pc' = "ct_create"
                  /\ stack' = <<"ms_loop">> \o stack
                  /\ UNCHANGED rv
             ELSE /\ Return(RBool(FALSE))
                  /\ UNCHANGED ct
  /\ UNCHANGED <<tables, pre, req, ad, dd, m, bm, cfd, bdw>>

\* line 400: for src in srcs; line 418
MergeStrict_Loop ==
  /\ pc = "ms_loop"
  /\ IF m.i >= Len(m.srcs)
     THEN /\ Return(RBool(TRUE))
          /\ UNCHANGED m
     ELSE /\ m' = [m EXCEPT !.i = @ + 1]
          /\ pc' = "ms_fetch_src"
          /\ UNCHANGED <<stack, rv>>
  /\ UNCHANGED <<tables, pre, req, log, ct, ad, dd, bm, cfd, bdw>>

\* lines 404-412: one record per identifier, with the common columns only
StrictRecords(common_cols, src_data) ==
  [i \in 1..Len(IdColumn(src_data)) |->
     [col \in {c \in common_cols : i <= Len(src_data[c])} |-> src_data[col][i]]]

\* line 401: src_data = await gapi.grist.fetch_table(src); lines 404-416
\* (src_data[col] of a column the snapshot lacks raises KeyError: lines 419-421)
MergeStrict_FetchSrc ==
  /\ pc = "ms_fetch_src"
  /\ LET src == m.srcs[m.i]
         src_data == Snapshot(tables[src])
         keyerror == Len(IdColumn(src_data)) > 0 /\ ~(m.common_cols \subseteq DOMAIN src_data)
         records == StrictRecords(m.common_cols, src_data)
     IN \E ok \in BOOLEAN :
          /\ log' = Append(log, Fetched("ms_fetch_src", src, ok, src_data))
          /\ IF ~ok \/ keyerror
             THEN /\ Return(RBool(FALSE))
                  /\ UNCHANGED ad
             ELSE IF records # <<>>
             THEN /\ EnterAddData(m.tgt, [islist |-> TRUE, val |-> records])
                  /\ pc' = "ad_create"
                  /\ stack' = <<"ms_loop">> \o stack
                  /\ UNCHANGED rv
             ELSE /\ pc' = "ms_loop"
                  /\ UNCHANGED <<stack, rv, ad>>
  /\ UNCHANGED <<tables, pre, req, ct, dd, m, bm, cfd, bdw>>

----------------------------------------------------------------------------
(* bulk_merge_tables *)

\* config.get(key, default)
Get(config, key, default) == IF key \in DOMAIN config THEN config[key] ELSE default

Cfg(sources, target, create_new, strict) ==
  [key \in {"sources", "target", "create_new", "strict"} |->
     [val |-> CASE key = "sources" -> sources [] key = "target" -> target
                [] key = "create_new" -> create_new [] OTHER -> strict]]

\* the configurations handed over: a union merge into a named target, a strict
\* merge that creates its target, and one that names a target but no sources
Configs ==
  { Cfg(<<"A">>, "T", FALSE, FALSE),
    Cfg(<<"B", "A">>, NoneVal, TRUE, TRUE),
    [key \in {"target"} |-> [val |-> "T"]] }

Call_bulk_merge_tables ==
  \E tbls \in SeqUpTo(Configs, MaxConfigs) :
    /\ Begin("bulk_merge_tables", [tables |-> tbls], "bm_loop")
    /\ bm' = [tables |-> tbls, i |-> 0, success |-> <<>>]
    /\ UNCHANGED <<ct, ad, dd, m, cfd, bdw>>

\* lines 464-473 and 478
BulkMerge_Loop ==
  /\ pc = "bm_loop"
  /\ IF bm.i >= Len(bm.tables)
     THEN /\ Return(RBool(TRUE))
          /\ UNCHANGED <<bm, m>>
     ELSE LET config == bm.tables[bm.i + 1]
              sources == Get(config, "sources", [val |-> <<>>]).val
              target == Get(config, "target", [val |-> NoneVal]).val
              create_new == Get(config, "create_new", [val |-> FALSE]).val
              strict == Get(config, "strict", [val |-> FALSE]).val
          IN /\ bm' = [bm EXCEPT !.i = @ + 1]
             /\ EnterMerge(strict, sources, target, create_new)
             /\ pc' = IF strict THEN "ms_begin" ELSE "mt_begin"
             /\ stack' = <<"bm_after">> \o stack
             /\ UNCHANGED rv
  /\ UNCHANGED <<tables, pre, req, log, ct, ad, dd, cfd, bdw>>

\* a failed configuration does not end the run
StopsOn_Never(success) == FALSE

\* line 475: if not success
StopsOn(success) == ~success

\* lines 471-476; bm.success keeps the value of success of every iteration
BulkMerge_After ==
  /\ pc = "bm_after"
  /\ bm' = [bm EXCEPT !.success = Append(@, rv.val)]
  /\ IF StopsOn(rv.val)
     THEN Return(RBool(FALSE))
     ELSE /\ pc' = "bm_loop"
          /\ UNCHANGED <<stack, rv>>
  /\ UNCHANGED <<tables, pre, req, log, ct, ad, dd, m, cfd, bdw>>

----------------------------------------------------------------------------
(* The storage a Service call may find, and the specification *)

Tb(cols, recs) ==
  [cols |-> cols,
   rows |-> [i \in 1..Len(recs) |-> Row(i, recs[i])],
   next |-> Len(recs) + 1]

RecXY(x, y) == [c \in {"x", "y"} |-> IF c = "x" THEN x ELSE y]
RecXZ(x, z) == [c \in {"x", "z"} |-> IF c = "x" THEN x ELSE z]

TablesA == { Tb({"x", "y"}, <<RecXY("1", "a"), RecXY(NoneVal, "a")>>),
             Tb({"x", "y"}, <<>>) }
TablesB == { Tb({"x", "z"}, <<RecXZ("1", "True")>>),
             Tb({"z"}, <<[c \in {"z"} |-> "2"]>>) }
TablesT == { Tb({}, <<>>) }

Init ==
  /\ tables \in {[t \in TableNames |-> IF t = "A" THEN a ELSE IF t = "B" THEN b ELSE c] :
                   a \in TablesA, b \in TablesB, c \in TablesT}
  /\ pre = tables
  /\ pc = "idle"
  /\ stack = <<>>
  /\ rv = RNone
  /\ req = [op |-> "", args |-> EmptyDict]
  /\ log = <<>>
  /\ ct = NoCt
  /\ ad = NoAd
  /\ dd = NoDd
  /\ m = NoM
  /\ bm = NoBm
  /\ cfd = NoCfd
  /\ bdw = NoBdw

Next ==
  \/ Call_create_table
  \/ CreateTable_Create
  \/ CreateTable_Destroy
  \/ Call_add_data
  \/ AddData_Create
  \/ Call_fetch_table_to_dataframe
  \/ FetchToDataframe_Fetch
  \/ Call_update_table
  \/ UpdateTable_Update
  \/ Call_delete_data
  \/ DeleteData_Destroy
  \/ Call_bulk_update_records
  \/ BulkUpdate_Update
  \/ Call_create_table_from_dataframe
  \/ CreateFromDataframe_Begin
  \/ CreateFromDataframe_AfterCreate
  \/ CreateFromDataframe_AfterAdd
  \/ Call_bulk_delete_where
  \/ BulkDeleteWhere_Fetch
  \/ BulkDeleteWhere_AfterDelete
  \/ Call_merge_tables
  \/ MergeTables_Begin
  \/ MergeTables_FetchFirst
  \/ MergeTables_Loop
  \/ MergeTables_FetchSrc
  \/ Call_merge_tables_strict
  \/ MergeStrict_Begin
  \/ MergeStrict_FetchCommon
  \/ MergeStrict_FetchFirst
  \/ MergeStrict_Loop
  \/ MergeStrict_FetchSrc
  \/ Call_bulk_merge_tables
  \/ BulkMerge_Loop
  \/ BulkMerge_After

Spec == Init /\ [][Next]_vars

\* bulk_delete_where alone, over a Gateway whose snapshots may be malformed
NextWhere ==
  \/ Call_bulk_delete_where
  \/ BulkDeleteWhere_FetchAny
  \/ DeleteData_Destroy
  \/ BulkDeleteWhere_AfterDelete

SpecWhere == Init /\ [][NextWhere]_vars

----------------------------------------------------------------------------
(* Properties *)

Done == pc = "done"

DirectMerge == req.op \in {"merge_tables", "merge_tables_strict"}

\* the rows an answered create inserted are in its table, as they were inserted
Persisted(e) ==
  \A n \in DOMAIN e.ret :
    \E r \in DOMAIN tables[e.table].rows :
      tables[e.table].rows[r] = Row(e.ret[n], e.recs[n])

\* C1: in merge_tables and merge_tables_strict, once a Gateway request made for
\* source k of the copy loop (its fetch_table, or the create of its rows) has
\* failed, no Gateway request is made for a later source, and the rows inserted
\* for earlier sources stay in the target.
C1_FailureAbortsLaterSources ==
  DirectMerge =>
    /\ \A a, b \in DOMAIN log :
         (a < b /\ log[a].k >= 1 /\ ~log[a].ok) => log[b].k <= log[a].k
    /\ \A a \in DOMAIN log :
         (log[a].site = "ad_create" /\ log[a].ok) => Persisted(log[a])

\* the non-system columns every listed source has
CommonOf(store, sources) ==
  {c \in UserCols : \A i \in DOMAIN sources : c \in store[sources[i]].cols}

\* C2: a merge_tables_strict over a non-empty source list whose sources share no
\* non-system column issues fetch_table requests only, leaves the storage as it
\* was, and returns False.
C2_DisjointStrictWritesNothing ==
  (/\ req.op = "merge_tables_strict"
   /\ req.args.sources # <<>>
   /\ CommonOf(pre, req.args.sources) = {}) =>
     /\ \A i \in DOMAIN log : log[i].call = "fetch_table"
     /\ tables = pre
     /\ Done => (rv.kind = "bool" /\ rv.val = FALSE)

\* a strict merge of two sources without a common column, every fetch answered,
\* has returned
C2_Witness ==
  /\ Done
  /\ req.op = "merge_tables_strict"
  /\ Len(req.args.sources) = 2
  /\ req.args.create_new
  /\ CommonOf(pre, req.args.sources) = {}
  /\ Len(log) = 2
  /\ \A i \in DOMAIN log : log[i].ok

\* C3 as stated: whatever the Gateway does, a returned create_table has issued
\* one create of one record and then one destroy of the identifier returned for
\* it, and the table holds no throwaway row.
C3_AlwaysCreatesThenDestroys ==
  (Done /\ req.op = "create_table") =>
    /\ Len(log) = 2
    /\ log[1].call = "create" /\ Len(log[1].recs) = 1
    /\ log[2].call = "destroy" /\ Len(log[1].ret) >= 1
    /\ log[2].ids = <<log[1].ret[1]>>
    /\ tables[req.args.table].rows = pre[req.args.table].rows

\* C3 as amended: every create_table issues exactly one create, of exactly one
\* throwaway record; when that create returns an identifier, exactly one destroy
\* follows, of exactly that identifier, and when that destroy succeeds the
\* table holds after the call the rows it held before; when the create raises
\* or returns no identifier, no destroy is issued.
C3_CreateThenDestroyOfReturnedId ==
  /\ \A a \in DOMAIN log :
       log[a].site = "ct_create" =>
         /\ log[a].call = "create" /\ Len(log[a].recs) = 1
         /\ IF log[a].ok /\ log[a].ret # <<>>
            THEN IF a = Len(log) THEN pc = "ct_destroy"
                 ELSE /\ log[a + 1].site = "ct_destroy"
                      /\ log[a + 1].call = "destroy"
                      /\ log[a + 1].table = log[a].table
                      /\ log[a + 1].ids = <<log[a].ret[1]>>
            ELSE a < Len(log) => log[a + 1].site # "ct_destroy"
  /\ \A b \in DOMAIN log :
       log[b].site = "ct_destroy" => (b > 1 /\ log[b - 1].site = "ct_create")
  /\ (Done /\ req.op = "create_table") =>
       /\ Len(log) \in {1, 2}
       /\ log[1].site = "ct_create"
       /\ (Len(log) = 2 /\ log[2].ok) =>
             tables[req.args.table].rows = pre[req.args.table].rows

\* a create_table on a table that holds rows has created and destroyed its
\* throwaway row and returned
C3_Witness ==
  /\ Done
  /\ req.op = "create_table"
  /\ pre[req.args.table].rows # <<>>
  /\ Len(log) = 2
  /\ log[1].ok /\ log[2].ok
  /\ log[2].ids = <<log[1].ret[1]>>
  /\ rv.val = TRUE

\* a row as a snapshot shows it: a value for every column of its table
FullRec(tb, r) == [c \in tb.cols |-> IF c \in DOMAIN r.rec THEN r.rec[c] ELSE NoneVal]

RowRecords(tb) == [i \in 1..Len(tb.rows) |-> FullRec(tb, tb.rows[i])]

IsPrefix(s, t) == Len(s) <= Len(t) /\ \A i \in DOMAIN s : s[i] = t[i]

\* the records of the rows t holds beyond the first n
RecsAfter(rows, n) == [i \in 1..(Len(rows) - n) |-> rows[n + i].rec]

\* the Gateway answered the request as its contract says
Answered(e) == e.ok /\ (e.call = "create" => Len(e.ret) = Len(e.recs))

C4Case ==
  /\ req.op = "merge_tables"
  /\ Len(req.args.sources) = 2
  /\ req.args.sources[1] # req.args.sources[2]
  /\ req.args.target = NoneVal
  /\ req.args.create_new

\* C4: merge_tables(sources=[S1, S2], target omitted, create_new=True) writes to
\* S1 only and never fetches S1; the rows S1 held before stay in place,
\* unchanged; and when the Gateway answers every request, S1 holds after the
\* call its former rows followed by exactly the rows of S2.
C4_FirstSourceIsTarget ==
  C4Case =>
    LET S1 == req.args.sources[1]
        S2 == req.args.sources[2]
    IN /\ \A i \in DOMAIN log :
            IF log[i].call = "fetch_table" THEN log[i].table = S2 ELSE log[i].table = S1
       /\ IsPrefix(pre[S1].rows, tables[S1].rows)
       /\ tables[S2] = pre[S2]
       /\ (Done /\ \A i \in DOMAIN log : Answered(log[i])) =>
            /\ rv.val = TRUE
            /\ RecsAfter(tables[S1].rows, Len(pre[S1].rows)) = RowRecords(pre[S2])

\* such a merge of two tables that both hold rows has returned, every request
\* answered
C4_Witness ==
  /\ C4Case
  /\ Done
  /\ \A i \in DOMAIN log : Answered(log[i])
  /\ pre[req.args.sources[1]].rows # <<>>
  /\ pre[req.args.sources[2]].rows # <<>>
  /\ Len(tables[req.args.sources[1]].rows) > Len(pre[req.args.sources[1]].rows)

\* the identifiers of the rows of a snapshot that a predicate selects
Selected(td, where) ==
  SelectIdx(IdColumn(td), 1,
    {i \in 1..Len(IdColumn(td)) :
       \A n \in DOMAIN where :
         /\ where[n].col \in DOMAIN td
         /\ i <= Len(td[where[n].col])
         /\ PyEq(td[where[n].col][i], where[n].val)})

\* C5: once bulk_delete_where has its snapshot, well-formed or not, it hands to
\* delete_data, and delete_data to one destroy request, exactly the identifiers
\* of the rows at which every predicate column exists, has a value and equals
\* the predicate's value, in row order; when there is none it returns True
\* having issued no destroy.
C5_DeletesExactlyTheMatches ==
  (req.op = "bulk_delete_where" /\ Len(log) >= 1 /\ log[1].ok) =>
    LET sel == Selected(log[1].snap, req.args.where)
    IN IF sel = <<>>
       THEN Done /\ Len(log) = 1 /\ rv = RBool(TRUE)
       ELSE \/ /\ pc = "dd_destroy" /\ Len(log) = 1
               /\ dd = [table |-> req.args.table, row_ids |-> sel]
            \/ /\ pc \in {"bdw_after_dd", "done"} /\ Len(log) = 2
               /\ log[2].call = "destroy"
               /\ log[2].table = req.args.table
               /\ log[2].ids = sel
               /\ Done => rv = RBool(log[2].ok)

\* a delete over a snapshot in which a predicate column is shorter than the id
\* column: some rows match, the last does not, and the destroy was issued
C5_Witness ==
  /\ req.op = "bulk_delete_where"
  /\ Done
  /\ Len(log) = 2
  /\ \E n \in DOMAIN req.args.where :
       /\ req.args.where[n].col \in DOMAIN log[1].snap
       /\ Len(log[1].snap[req.args.where[n].col]) < Len(IdColumn(log[1].snap))
  /\ log[2].ids # <<>>
  /\ Len(log[2].ids) < Len(IdColumn(log[1].snap))

FailureValue(op, args) ==
  CASE op \in {"add_data", "create_table_from_dataframe"} -> RNone
    [] op = "fetch_table_to_dataframe" -> RFrame(EmptyFrame)
    [] op = "bulk_update_records" -> RList([i \in 1..Len(args.updates) |-> FALSE])
    [] OTHER -> RBool(FALSE)

\* C7: a Service operation during which a Gateway request failed returns the
\* failure value of its declared shape.
C7_FailureGivesFailureValue ==
  (Done /\ \E a \in DOMAIN log : ~log[a].ok) =>
    LET f == FailureValue(req.op, req.args)
    IN rv.kind = f.kind /\ rv.val = f.val

\* the target of a merge and the first source of its copy loop
TargetOf(args) == IF args.target # NoneVal THEN args.target ELSE args.sources[1]
CopiedOf(args) == IF args.target # NoneVal THEN args.sources ELSE Tail(args.sources)

\* the records of a create are those of the rows of the snapshot, each with
\* the values of exactly the columns cols
RecordsOf(e, snap, cols) ==
  /\ Len(e.recs) = Len(snap["id"])
  /\ \A n \in DOMAIN e.recs :
       /\ DOMAIN e.recs[n] = cols
       /\ \A c \in cols : e.recs[n][c] = snap[c][n]

\* C8: in merge_tables with create_new, the throwaway record that declares the
\* new target has exactly the non-system columns of the first processed source;
\* and every record inserted into the target has exactly the non-system columns
\* of the snapshot of the source it was built from, with that row's values.
C8_UnionRecordsCarryOwnColumns ==
  req.op = "merge_tables" =>
    /\ \A b \in DOMAIN log :
         /\ log[b].site = "ct_create" =>
              /\ b = 2 /\ req.args.create_new
              /\ log[1].site = "mt_fetch_first" /\ log[1].ok
              /\ log[1].table = CopiedOf(req.args)[1]
              /\ log[b].table = TargetOf(req.args)
              /\ DOMAIN log[b].recs[1] = DOMAIN log[1].snap \ SysCols
              /\ DOMAIN log[b].recs[1] = pre[CopiedOf(req.args)[1]].cols
         /\ log[b].site = "ad_create" =>
              /\ b > 1 /\ log[b - 1].site = "mt_fetch_src" /\ log[b - 1].ok
              /\ log[b - 1].table = CopiedOf(req.args)[log[b].k]
              /\ log[b].table = TargetOf(req.args)
              /\ RecordsOf(log[b], log[b - 1].snap, DOMAIN log[b - 1].snap \ SysCols)
    /\ (/\ req.args.create_new /\ req.args.sources # <<>> /\ CopiedOf(req.args) # <<>>
        /\ Len(log) >= 2 /\ log[1].ok) => log[2].site = "ct_create"

\* A = {id, x, y} and B = {id, x, z} merged into a new target: the target was
\* declared with {x, y}, A's rows went in with {x, y} and B's with {x, z}
C8_Witness ==
  /\ req.op = "merge_tables"
  /\ Done
  /\ req.args = [sources |-> <<"A", "B">>, target |-> "T", create_new |-> TRUE]
  /\ pre["A"].cols = {"x", "y"} /\ pre["B"].cols = {"x", "z"}
  /\ \A a \in DOMAIN log : Answered(log[a])
  /\ DOMAIN log[2].recs[1] = {"x", "y"}
  /\ \E a, b \in DOMAIN log :
       /\ log[a].site = "ad_create" /\ log[a].k = 1 /\ DOMAIN log[a].recs[1] = {"x", "y"}
       /\ log[b].site = "ad_create" /\ log[b].k = 2 /\ DOMAIN log[b].recs[1] = {"x", "z"}

\* C9: in merge_tables_strict no row is copied before every listed source has
\* been fetched; every record inserted holds exactly the columns common to all
\* listed sources, with the values of a row of the source it was built from;
\* and the target is never a source of the copy loop.
C9_StrictCopiesNonTargetSources ==
  req.op = "merge_tables_strict" =>
    \A b \in DOMAIN log :
      /\ log[b].call # "fetch_table" =>
           /\ b > Len(req.args.sources)
           /\ \A a \in 1..Len(req.args.sources) :
                log[a].site = "ms_fetch_common" /\ log[a].table = req.args.sources[a]
      /\ log[b].site = "ad_create" =>
           /\ log[b - 1].site = "ms_fetch_src" /\ log[b - 1].ok
           /\ log[b].table = TargetOf(req.args)
           /\ RecordsOf(log[b], log[b - 1].snap, CommonOf(pre, req.args.sources))
      /\ log[b].site = "ms_fetch_src" => log[b].table # TargetOf(req.args)

\* the indices of the rows t holds beyond those it held before the call
NewRows(t) == (Len(pre[t].rows) + 1)..Len(tables[t].rows)

\* row i of the target has the values of a row of a copied source: a row of
\* another table, or an earlier row of the target when the target is copied
Copied(args, i) ==
  LET t == TargetOf(args)
      rec == tables[t].rows[i].rec
  IN \E s \in Range(CopiedOf(args)) :
       \E r \in DOMAIN tables[s].rows :
         /\ s # t \/ r < i
         /\ DOMAIN rec \subseteq tables[s].cols
         /\ \A c \in DOMAIN rec : rec[c] = FullRec(tables[s], tables[s].rows[r])[c]

\* row i of the target is the throwaway row of this call, whose destroy failed
ThrowawayLeft(args, i) ==
  LET t == TargetOf(args)
  IN \E b \in DOMAIN log :
       /\ log[b].site = "ct_create" /\ log[b].ok /\ log[b].table = t
       /\ log[b].ret # <<>>
       /\ tables[t].rows[i] = Row(log[b].ret[1], log[b].recs[1])
       /\ b < Len(log) /\ log[b + 1].site = "ct_destroy" /\ ~log[b + 1].ok

\* a merge issues no update; it destroys only the throwaway row it has just
\* created, never a row that was there before; every table keeps the rows it
\* held, unchanged and in place; and only the target gains rows
MergeKeepsRows ==
  /\ \A a \in DOMAIN log :
       /\ log[a].call # "update"
       /\ log[a].call = "destroy" =>
            /\ a > 1 /\ log[a - 1].site = "ct_create" /\ log[a - 1].ok
            /\ log[a].table = log[a - 1].table
            /\ log[a].ids = <<log[a - 1].ret[1]>>
            /\ \A r \in DOMAIN pre[log[a].table].rows :
                 pre[log[a].table].rows[r].id # log[a].ids[1]
  /\ \A t \in TableNames :
       /\ IsPrefix(pre[t].rows, tables[t].rows)
       /\ (req.args.sources = <<>> \/ t # TargetOf(req.args)) => tables[t] = pre[t]

\* C10 as stated: whatever the Gateway does, a merge keeps every row, and after
\* it the target holds its former rows plus only rows copied from sources.
C10_TargetGainsOnlyCopies ==
  DirectMerge =>
    /\ MergeKeepsRows
    /\ (Done /\ req.args.sources # <<>>) =>
         \A i \in NewRows(TargetOf(req.args)) : Copied(req.args, i)

\* C10 as amended: whatever the Gateway does, a merge keeps every row, and
\* after it the target holds its former rows plus only rows copied from
\* sources and at most one throwaway row of this call, left there only when its
\* destroy failed.
C10_TargetGainsCopiesAndLeftover ==
  DirectMerge =>
    /\ MergeKeepsRows
    /\ (Done /\ req.args.sources # <<>>) =>
         LET new == NewRows(TargetOf(req.args))
         IN /\ \A i \in new : Copied(req.args, i) \/ ThrowawayLeft(req.args, i)
            /\ Cardinality({i \in new : ~Copied(req.args, i)}) <= 1

\* a merge that created its target in a table holding rows, failed to destroy
\* the throwaway row and then copied rows has returned
C10_Witness ==
  /\ DirectMerge
  /\ Done
  /\ req.args.sources # <<>>
  /\ req.args.create_new
  /\ pre[TargetOf(req.args)].rows # <<>>
  /\ \E b \in DOMAIN log : log[b].site = "ct_destroy" /\ ~log[b].ok
  /\ \E b \in DOMAIN log : log[b].site = "ad_create" /\ log[b].ok
  /\ \E i \in NewRows(TargetOf(req.args)) : ~Copied(req.args, i)
  /\ \E i \in NewRows(TargetOf(req.args)) : Copied(req.args, i)

----------------------------------------------------------------------------
(* bulk_update_records *)

\* C11: bulk_update_records issues exactly one Gateway update request, for the
\* named table and carrying the whole batch, and returns a list with one
\* boolean per update of the batch: every entry True when that request
\* succeeded and every entry False when it raised, never a mix.
C11_BulkUpdateAllOrNothing ==
  (req.op = "bulk_update_records") =>
    /\ Len(log) <= 1
    /\ Done =>
         /\ Len(log) = 1
         /\ log[1].call = "update"
         /\ log[1].table = req.args.table
         /\ log[1].recs = req.args.updates
         /\ rv.kind = "list"
         /\ Len(rv.val) = Len(req.args.updates)
         /\ \A i \in DOMAIN rv.val : rv.val[i] = log[1].ok

\* a batch of two updates whose single update request raised: both reported
\* failed and the stored rows untouched
C11_Witness ==
  /\ req.op = "bulk_update_records"
  /\ Done
  /\ Len(req.args.updates) = 2
  /\ Len(log) = 1
  /\ ~log[1].ok
  /\ rv = RList(<<FALSE, FALSE>>)
  /\ tables = pre

====
